---- MODULE Spec2Model ----
(***************************************************************************)
(* Item CRUD API (app/main.py, app/schemas.py).                            *)
(*                                                                         *)
(* Each HTTP request runs through four steps, in the order in which the    *)
(* web framework runs a route that declares `db: Session = Depends(get_db)`*)
(* and a pydantic body parameter:                                          *)
(*   deps      get_db up to its yield (SessionLocal())                     *)
(*   validate  the request body against ItemCreate / ItemUpdate            *)
(*   handler   create_item / read_item / update_item / delete_item         *)
(*   cleanup   the finally block of get_db (db.close())                    *)
(* Requests run concurrently (one worker thread per request slot); the     *)
(* only shared state is the items table behind the persistence layer.      *)
(* The persistence layer (app.crud, app.database, app.models) is not part  *)
(* of the sources at hand; it is modelled from its specified contract.     *)
(***************************************************************************)
EXTENDS Integers, FiniteSets, Sequences, TLC

\* ---------------------------------------------------------------- bounds
NumSlots == 2          \* requests in flight at once
MaxRequests == 3       \* requests served in one behaviour
MaxId == 2             \* ids the store hands out, and ids a path may name

\* ---------------------------------------------------------------- values
None == "None"                 \* Python None / JSON null
Missing == "<missing>"         \* a key the JSON body does not have
BadType == "<not-a-string>"    \* a JSON value that is no string (list, object, null title)
Unbound == 0                   \* the local `db` of get_db before its assignment

Unread == "<unread>"           \* the body of a request before it is parsed, or of one without body
NoBody == [title |-> Unread, description |-> Unread]

Titles == {"t1", "t2"}
Descriptions == {"d1"}
Slots == 1..NumSlots
Ids == 1..MaxId

\* JSON bodies a client may send: the well-formed ones and one of each
\* malformed kind (no title, title of a wrong type, description of a wrong type).
ValidBodies == [title : Titles, description : Descriptions \cup {Missing}]
InvalidBodies == { [title |-> Missing, description |-> "d1"],
                   [title |-> BadType, description |-> Missing],
                   [title |-> "t1", description |-> BadType] }
Bodies == ValidBodies \cup InvalidBodies

NoItem == [title |-> None, description |-> None]
NoRow == [id |-> 0, title |-> None, description |-> None]
NoReq == [op |-> "none", item_id |-> 0, body |-> NoBody]
NoResp == [kind |-> "none", item |-> NoRow]
NoWrite == [op |-> "none", fields |-> NoItem, over |-> None]

\* Method and path of a request; its JSON body is read when it is validated.
Routes ==
    [op : {"create"}, item_id : {0}, body : {NoBody}]
    \cup [op : {"read", "update", "delete"}, item_id : Ids, body : {NoBody}]

VARIABLES
    table,      \* the items table: a set of rows [id, title, description]
    nextId,     \* the id the store assigns to the next inserted row
    sessions,   \* every session SessionLocal() has made: <<[owner, open, users, stale]>>
    nreq,       \* requests accepted so far; the n-th request is request n
    pc,         \* per slot: "idle", "deps", "validate", "handler", "cleanup", "done"
    rid,        \* per slot: the number of the request it is serving
    req,        \* per slot: the request (method, path id, JSON body)
    db,         \* per slot: the local `db` of get_db (a session number, or Unbound)
    item,       \* per slot: the validated body handed to the handler
    resp,       \* per slot: the response the caller gets
    cleanupErr, \* per slot: the finally block of get_db raised
    calls,      \* per slot: persistence operations the request has invoked
    written     \* per id: the last create, update or delete that succeeded on it,
                \* the fields the client sent with it, and the description it replaced

vars == <<table, nextId, sessions, nreq, pc, rid, req, db, item, resp, cleanupErr, calls, written>>

store == <<table, nextId>>

\* ------------------------------------------------- schemas (app/schemas.py)

\* class ItemBase(BaseModel): title: str; description: str = None
\* Parsing a JSON body: title is required and must be a string, description
\* must be a string when given and is None when the key is absent.
ItemBase_defaultEmpty(body) ==
    IF body.title \in {Missing, BadType} \/ body.description = BadType
    THEN [ok |-> FALSE, item |-> NoItem]
    ELSE [ok |-> TRUE,
          item |-> [title |-> body.title,
                    description |-> IF body.description = Missing THEN ""
                                    ELSE body.description]]

ItemBase_anyType(body) ==
    IF body.title = Missing
    THEN [ok |-> FALSE, item |-> NoItem]
    ELSE [ok |-> TRUE,
          item |-> [title |-> body.title,
                    description |-> IF body.description = Missing THEN None
                                    ELSE body.description]]

ItemBase(body) ==
    IF body.title \in {Missing, BadType} \/ body.description = BadType
    THEN [ok |-> FALSE, item |-> NoItem]
    ELSE [ok |-> TRUE,
          item |-> [title |-> body.title,
                    description |-> IF body.description = Missing THEN None
                                    ELSE body.description]]

\* class ItemCreate(ItemBase): pass
ItemCreate_titleOptional(body) ==
    IF body.title = Missing /\ body.description # BadType
    THEN [ok |-> TRUE,
          item |-> [title |-> None,
                    description |-> IF body.description = Missing THEN None
                                    ELSE body.description]]
    ELSE ItemBase(body)

ItemCreate(body) == ItemBase(body)

\* class ItemUpdate(ItemBase): pass
ItemUpdate(body) == ItemBase(body)

\* ------------------------------------- persistence contract (app.crud)

Row(id, it) == [id |-> id, title |-> it.title, description |-> it.description]
Found(t, id) == {row \in t : row.id = id}

\* create(fields) -> Item: inserts a row under a fresh id and returns it.
crud_create_item(t, n, it) ==
    [table |-> t \cup {Row(n, it)}, nextId |-> n + 1,
     resp |-> [kind |-> "ok", item |-> Row(n, it)]]

\* get(id) -> Item | NotFound
crud_get_item(t, n, id) ==
    [table |-> t, nextId |-> n,
     resp |-> IF Found(t, id) = {} THEN [kind |-> "NotFound", item |-> NoRow]
              ELSE [kind |-> "ok", item |-> CHOOSE row \in Found(t, id) : TRUE]]

\* update(id, fields) -> Item | NotFound: overwrites title and description.
crud_update_item(t, n, id, it) ==
    IF Found(t, id) = {}
    THEN [table |-> t, nextId |-> n, resp |-> [kind |-> "NotFound", item |-> NoRow]]
    ELSE [table |-> (t \ Found(t, id)) \cup {Row(id, it)}, nextId |-> n,
          resp |-> [kind |-> "ok", item |-> Row(id, it)]]

\* delete(id) -> Success | NotFound
crud_delete_item(t, n, id) ==
    IF Found(t, id) = {}
    THEN [table |-> t, nextId |-> n, resp |-> [kind |-> "NotFound", item |-> NoRow]]
    ELSE [table |-> t \ Found(t, id), nextId |-> n,
          resp |-> [kind |-> "deleted", item |-> NoRow]]

\* SessionLocal(): a new session, open, belonging to the request that asked.
SessionLocal(ss, owner) ==
    Append(ss, [owner |-> owner, open |-> TRUE, users |-> {}, stale |-> FALSE])

\* A query or commit through session d by request n.
SessionUsed(ss, d, n) ==
    [ss EXCEPT ![d] = [@ EXCEPT !.users = @ \cup {n},
                                !.stale = @ \/ ~ss[d].open]]

\* Session.close()
SessionClosed(ss, d) == [ss EXCEPT ![d] = [@ EXCEPT !.open = FALSE]]

\* ------------------------------------------------------------------ Init

Init ==
    /\ table = {}
    /\ nextId = 1
    /\ sessions = <<>>
    /\ nreq = 0
    /\ pc = [s \in Slots |-> "idle"]
    /\ rid = [s \in Slots |-> 0]
    /\ req = [s \in Slots |-> NoReq]
    /\ db = [s \in Slots |-> Unbound]
    /\ item = [s \in Slots |-> NoItem]
    /\ resp = [s \in Slots |-> NoResp]
    /\ cleanupErr = [s \in Slots |-> FALSE]
    /\ calls = [s \in Slots |-> 0]
    /\ written = [i \in Ids |-> NoWrite]

\* --------------------------------------------------------------- actions

Creating == {t \in Slots : pc[t] \in {"deps", "validate", "handler"} /\ req[t].op = "create"}

\* A request arrives and is given to a free worker.
Arrive(s) ==
    /\ pc[s] \in {"idle", "done"}
    /\ nreq < MaxRequests
    /\ \E r \in Routes :
        /\ r.op = "create" => nextId + Cardinality(Creating) <= MaxId
        /\ req' = [req EXCEPT ![s] = r]
    /\ nreq' = nreq + 1
    /\ rid' = [rid EXCEPT ![s] = nreq + 1]
    /\ db' = [db EXCEPT ![s] = Unbound]
    /\ cleanupErr' = [cleanupErr EXCEPT ![s] = FALSE]
    /\ resp' = [resp EXCEPT ![s] = NoResp]
    /\ pc' = [pc EXCEPT ![s] = "deps"]
    /\ UNCHANGED <<store, sessions, item, calls, written>>

\* get_db, entered: db = SessionLocal(); yield db
get_db_shared(s) ==
    /\ pc[s] = "deps"
    /\ sessions' = IF sessions = <<>> THEN SessionLocal(sessions, rid[s]) ELSE sessions
    /\ db' = [db EXCEPT ![s] = 1]
    /\ pc' = [pc EXCEPT ![s] = "validate"]
    /\ UNCHANGED <<store, nreq, rid, req, item, resp, cleanupErr, calls, written>>

get_db(s) ==
    /\ pc[s] = "deps"
    /\ sessions' = SessionLocal(sessions, rid[s])
    /\ db' = [db EXCEPT ![s] = Len(sessions) + 1]
    /\ pc' = [pc EXCEPT ![s] = "validate"]
    /\ UNCHANGED <<store, nreq, rid, req, item, resp, cleanupErr, calls, written>>

\* get_db, SessionLocal() raises: control goes to the finally block with db
\* never assigned, db.close() raises UnboundLocalError, the request fails.
get_db_raise(s) ==
    /\ pc[s] = "deps"
    /\ cleanupErr' = [cleanupErr EXCEPT ![s] = TRUE]
    /\ resp' = [resp EXCEPT ![s] = [kind |-> "ServerError", item |-> NoRow]]
    /\ req' = [req EXCEPT ![s] = NoReq]
    /\ pc' = [pc EXCEPT ![s] = "done"]
    /\ UNCHANGED <<store, sessions, nreq, rid, db, item, calls, written>>

\* get_db, resumed when the request ends: finally: db.close()
\* The request is over: what is left of it is its response kind.
get_db_finally(s) ==
    /\ pc[s] = "cleanup"
    /\ sessions' = SessionClosed(sessions, db[s])
    /\ req' = [req EXCEPT ![s] = NoReq]
    /\ item' = [item EXCEPT ![s] = NoItem]
    /\ resp' = [resp EXCEPT ![s] = [kind |-> resp[s].kind, item |-> NoRow]]
    /\ calls' = [calls EXCEPT ![s] = 0]
    /\ pc' = [pc EXCEPT ![s] = "done"]
    /\ UNCHANGED <<store, nreq, rid, db, cleanupErr, written>>

\* The body parameter `item: schemas.ItemCreate` / `item: schemas.ItemUpdate`:
\* a body the schema rejects ends the request with a validation error and the
\* handler is not called; routes without a body go straight to the handler.
Validate(s) ==
    /\ pc[s] = "validate"
    /\ \E body \in IF req[s].op \in {"create", "update"} THEN Bodies ELSE {NoBody} :
         LET v == CASE req[s].op = "create" -> ItemCreate(body)
                    [] req[s].op = "update" -> ItemUpdate(body)
                    [] OTHER -> [ok |-> TRUE, item |-> NoItem]
         IN /\ req' = [req EXCEPT ![s].body = body]
            /\ IF v.ok
               THEN /\ item' = [item EXCEPT ![s] = v.item]
                    /\ pc' = [pc EXCEPT ![s] = "handler"]
                    /\ resp' = resp
               ELSE /\ resp' = [resp EXCEPT ![s] = [kind |-> "ValidationError", item |-> NoRow]]
                    /\ pc' = [pc EXCEPT ![s] = "cleanup"]
                    /\ item' = item
    /\ UNCHANGED <<store, sessions, nreq, rid, db, cleanupErr, calls, written>>

\* The fields a client sent: a description it left out is absent (null).
Sent(body) ==
    IF body = NoBody THEN NoItem
    ELSE [title |-> body.title,
          description |-> IF body.description = Missing THEN None ELSE body.description]

\* The row stored under id, if there is one.
Stored(t, id) == IF Found(t, id) = {} THEN NoRow ELSE CHOOSE row \in Found(t, id) : TRUE

\* What every handler does with the outcome of its persistence call.
Returns(s, out, op, id) ==
    /\ table' = out.table
    /\ nextId' = out.nextId
    /\ resp' = [resp EXCEPT ![s] = out.resp]
    /\ sessions' = SessionUsed(sessions, db[s], rid[s])
    /\ calls' = [calls EXCEPT ![s] = @ + 1]
    /\ written' = IF op # "read" /\ out.resp.kind \in {"ok", "deleted"}
                  THEN [written EXCEPT ![IF op = "create" THEN out.resp.item.id ELSE id] =
                                           [op |-> op, fields |-> Sent(req[s].body),
                                            over |-> Stored(table, id).description]]
                  ELSE written
    /\ pc' = [pc EXCEPT ![s] = "cleanup"]
    /\ UNCHANGED <<nreq, rid, req, db, item, cleanupErr>>

\* @app.post("/items/")
create_item(s) ==
    /\ pc[s] = "handler" /\ req[s].op = "create"
    /\ Returns(s, crud_create_item(table, nextId, item[s]), "create", nextId)

\* @app.get("/items/{item_id}")
read_item_null(s) ==
    /\ pc[s] = "handler" /\ req[s].op = "read"
    /\ LET out == crud_get_item(table, nextId, req[s].item_id)
       IN Returns(s, [out EXCEPT !.resp = [kind |-> "ok", item |-> out.resp.item]],
                  "read", req[s].item_id)

read_item_deletes(s) ==
    /\ pc[s] = "handler" /\ req[s].op = "read"
    /\ Returns(s, crud_delete_item(table, nextId, req[s].item_id), "read", req[s].item_id)

read_item(s) ==
    /\ pc[s] = "handler" /\ req[s].op = "read"
    /\ Returns(s, crud_get_item(table, nextId, req[s].item_id), "read", req[s].item_id)

\* @app.put("/items/{item_id}")
update_item_reads(s) ==
    /\ pc[s] = "handler" /\ req[s].op = "update"
    /\ Returns(s, crud_get_item(table, nextId, req[s].item_id), "update", req[s].item_id)

update_item_partial(s) ==
    /\ pc[s] = "handler" /\ req[s].op = "update"
    /\ LET old == crud_get_item(table, nextId, req[s].item_id).resp.item
           kept == IF item[s].description = None
                   THEN [item[s] EXCEPT !.description = old.description]
                   ELSE item[s]
       IN Returns(s, crud_update_item(table, nextId, req[s].item_id, kept),
                  "update", req[s].item_id)

update_item(s) ==
    /\ pc[s] = "handler" /\ req[s].op = "update"
    /\ Returns(s, crud_update_item(table, nextId, req[s].item_id, item[s]),
               "update", req[s].item_id)

\* @app.delete("/items/{item_id}")
delete_item_reads(s) ==
    /\ pc[s] = "handler" /\ req[s].op = "delete"
    /\ LET out == crud_get_item(table, nextId, req[s].item_id)
       IN Returns(s, [out EXCEPT !.resp = IF out.resp.kind = "ok"
                                         THEN [kind |-> "deleted", item |-> NoRow]
                                         ELSE out.resp],
                  "delete", req[s].item_id)

delete_item(s) ==
    /\ pc[s] = "handler" /\ req[s].op = "delete"
    /\ Returns(s, crud_delete_item(table, nextId, req[s].item_id), "delete", req[s].item_id)

\* The store is unreachable while a handler's persistence call runs: the call
\* raises, nothing is written, the caller gets a server error.
StoreUnavailable(s) ==
    /\ pc[s] = "handler"
    /\ resp' = [resp EXCEPT ![s] = [kind |-> "ServerError", item |-> NoRow]]
    /\ sessions' = SessionUsed(sessions, db[s], rid[s])
    /\ calls' = [calls EXCEPT ![s] = @ + 1]
    /\ pc' = [pc EXCEPT ![s] = "cleanup"]
    /\ UNCHANGED <<store, nreq, rid, req, db, item, cleanupErr, written>>

\* One step of the request worker s is serving.
Step(s) ==
        \/ Arrive(s)
        \/ get_db(s)
        \/ get_db_raise(s)
        \/ Validate(s)
        \/ create_item(s)
        \/ read_item(s)
        \/ update_item(s)
        \/ delete_item(s)
        \/ StoreUnavailable(s)
        \/ get_db_finally(s)

\* Requests served concurrently, one per worker.
Next == \E s \in Slots : Step(s)

Spec == Init /\ [][Next]_vars

\* Requests served one after the other, all by the first worker.
SeqNext == Step(1)

SeqSpec == Init /\ [][SeqNext]_vars

\* ---------------------------------------------------------------- claims

Malformed(body) == body.title \in {Missing, BadType} \/ body.description = BadType
Ok(row) == [kind |-> "ok", item |-> row]
NotFound == [kind |-> "NotFound", item |-> NoRow]

\* C1: create, whenever its persistence call returns, answers with the Item
\* made of the fields the client sent (description null when left out) under
\* an id no stored row had; and a get of that id that follows the create
\* answers with that same Item.
C1_CreateThenGet ==
    [][\A s \in Slots :
        /\ create_item(s) =>
              /\ resp'[s].kind = "ok"
              /\ Found(table, resp'[s].item.id) = {}
              /\ resp'[s].item = Row(resp'[s].item.id, Sent(req[s].body))
        /\ (read_item(s) /\ written[req[s].item_id].op = "create") =>
              resp'[s] = Ok(Row(req[s].item_id, written[req[s].item_id].fields))
      ]_vars

C1_Witness ==
    \E s \in Slots :
        /\ pc[s] = "cleanup" /\ req[s].op = "read"
        /\ written[req[s].item_id].op = "create"
        /\ resp[s] = Ok([id |-> req[s].item_id, title |-> "t2", description |-> None])

\* C2: a get, update or delete whose persistence call returns for an id that
\* matches no stored row answers NotFound: no success, no other error.
C2_MissingIdIsNotFound ==
    [][\A s \in Slots :
        ((read_item(s) \/ update_item(s) \/ delete_item(s))
            /\ Found(table, req[s].item_id) = {})
        => resp'[s] = NotFound
      ]_vars

C2_Witness ==
    \E s \in Slots :
        /\ pc[s] = "cleanup" /\ req[s].op = "update" /\ calls[s] = 1
        /\ Found(table, req[s].item_id) = {}
        /\ resp[s] = NotFound

\* C3: an update of a stored id answers with the Item made of the id and the
\* fields sent, and a get of that id that follows the update answers with
\* that same Item.
C3_UpdateThenGet ==
    [][\A s \in Slots :
        /\ (update_item(s) /\ Found(table, req[s].item_id) # {}) =>
              resp'[s] = Ok(Row(req[s].item_id, Sent(req[s].body)))
        /\ (read_item(s) /\ written[req[s].item_id].op = "update") =>
              resp'[s] = Ok(Row(req[s].item_id, written[req[s].item_id].fields))
      ]_vars

C3_Witness ==
    \E s \in Slots :
        /\ pc[s] = "cleanup" /\ req[s].op = "read"
        /\ written[req[s].item_id].op = "update"
        /\ resp[s] = Ok(Row(req[s].item_id, written[req[s].item_id].fields))

\* C4: a delete of a stored id removes its row, and a get or a second delete
\* of that id that follows the delete answers NotFound.
C4_DeleteThenNotFound ==
    [][\A s \in Slots :
        /\ (delete_item(s) /\ Found(table, req[s].item_id) # {}) =>
              /\ resp'[s].kind = "deleted"
              /\ Found(table', req[s].item_id) = {}
        /\ ((read_item(s) \/ delete_item(s)) /\ written[req[s].item_id].op = "delete") =>
              resp'[s] = NotFound
      ]_vars

C4_Witness ==
    \E s \in Slots :
        /\ pc[s] = "cleanup" /\ req[s].op = "delete"
        /\ written[req[s].item_id].op = "delete"
        /\ resp[s] = NotFound

\* C5: in every reachable state no two stored rows share an id and every
\* stored row has a title that is a string.
C5_UniqueIdNonNullTitle ==
    /\ \A a, b \in table : a.id = b.id => a = b
    /\ \A a \in table : a.title \in Titles

C5_Witness ==
    /\ Cardinality(table) = 2
    /\ \A s \in Slots : pc[s] = "cleanup" /\ req[s].op = "create" /\ resp[s].kind = "ok"

\* C6: every request that has ended acquired a session, that session is
\* closed, and the cleanup did not raise.
C6_SessionReleasedOnEveryPath ==
    \A s \in Slots :
        pc[s] = "done" =>
            /\ db[s] # Unbound
            /\ ~sessions[db[s]].open
            /\ ~cleanupErr[s]

\* The paths on which get_db reached its yield do close the session: success,
\* validation error, NotFound and a store error raised in the handler.
SessionClosedAfterYield ==
    \A s \in Slots :
        (pc[s] = "done" /\ db[s] # Unbound) => (~sessions[db[s]].open /\ ~cleanupErr[s])

C8_UpdateReplacesDescription ==
    [][\A s \in Slots :
        (update_item(s) /\ Found(table, req[s].item_id) # {}
            /\ req[s].body.description = Missing)
        => Found(table', req[s].item_id) =
              {[id |-> req[s].item_id, title |-> req[s].body.title, description |-> None]}
      ]_vars

C8_Witness ==
    \E s \in Slots :
        /\ pc[s] = "cleanup" /\ req[s].op = "update"
        /\ req[s].body.description = Missing
        /\ written[req[s].item_id].op = "update"
        /\ written[req[s].item_id].over = "d1"
        /\ resp[s] = Ok([id |-> req[s].item_id, title |-> req[s].body.title,
                         description |-> None])
        /\ Found(table, req[s].item_id) = {resp[s].item}

\* C9: every session is used by the request it was made for and by no other,
\* never after it was closed, and no two requests hold the same session.
C9_SessionPerRequest ==
    /\ \A d \in DOMAIN sessions :
          /\ sessions[d].users \subseteq {sessions[d].owner}
          /\ ~sessions[d].stale
    /\ \A s \in Slots : db[s] # Unbound => sessions[db[s]].owner = rid[s]
    /\ \A s, t \in Slots : (s # t /\ db[s] # Unbound /\ db[t] # Unbound) => db[s] # db[t]

C9_Witness ==
    /\ \A s \in Slots : pc[s] = "cleanup" /\ calls[s] = 1
    /\ \E d \in DOMAIN sessions : ~sessions[d].open /\ sessions[d].users # {}

\* C10: get leaves the store as it was; update and delete of id i leave every
\* row with another id as it was; create leaves every stored row as it was;
\* and a get, update or delete that answers NotFound leaves the store as it was.
Others(t, id) == {row \in t : row.id # id}

C10_Frame ==
    [][\A s \in Slots :
        /\ read_item(s) => table' = table
        /\ (update_item(s) \/ delete_item(s)) =>
              Others(table', req[s].item_id) = Others(table, req[s].item_id)
        /\ create_item(s) =>
              /\ table \subseteq table'
              /\ \A row \in table' \ table : Found(table, row.id) = {}
        /\ ((read_item(s) \/ update_item(s) \/ delete_item(s)) /\ resp'[s] = NotFound) =>
              table' = table
      ]_vars

C10_Witness ==
    /\ Cardinality(table) = 2
    /\ \E s \in Slots :
          /\ pc[s] = "cleanup" /\ req[s].op = "update" /\ resp[s].kind = "ok"
====
